---- MODULE Spec2Model ----
(***************************************************************************)
(* Model of backend/server.js of the Stutterless speech-coaching backend:  *)
(* the challenge state machine (POST /challenge/start, /challenge/tick),   *)
(* the progression engine (updateGamification), the heuristic analyzer,    *)
(* POST /users and POST /coach, the latter split at its await.  Strings    *)
(* whose content the code inspects (transcripts) are sequences of          *)
(* one-character strings, so that trim, toLowerCase and split are computed *)
(* character by character.  Five specifications share the variables:       *)
(* SpecChallenge (the challenge endpoints under a clock in ms), SpecCoach  *)
(* (the user registry, /coach and the ledger), SpecLedger (/coach and      *)
(* GET /sessions/:userId under the clock), SpecGamify (updateGamification  *)
(* applied over and over to one profile) and SpecAnalyze                   *)
(* (analyzeHeuristics applied to one text).                                *)
(***************************************************************************)
EXTENDS Integers, Sequences, FiniteSets, Bags, TLC

VARIABLES
  users,             \* Map username -> profile                (server.js:29)
  activeChallenges,  \* Map userId -> challenge record         (server.js:43)
  sessions,          \* the ledger list                        (server.js:185)
  sessionCounter,    \* next ledger id                         (server.js:186)
  inflight,          \* /coach requests suspended at the await (server.js:218)
  now,               \* the clock, in ms since the server started
  res,               \* the response sent last
  prevTick           \* history: per userId, the ticks seen by its current record

vars == <<users, activeChallenges, sessions, sessionCounter, inflight, now, res, prevTick>>

-----------------------------------------------------------------------------
(* Strings *)

\* "" as a sequence of characters
Empty == <<>>

\* the characters /\s/ and String.prototype.trim treat as white space
IsSpace(c) == c \in {" ", "\t", "\n"}

\* String.prototype.toLowerCase, one character
LowerChar(c) ==
  CASE c = "I" -> "i"
    [] c = "U" -> "u"
    [] OTHER -> c

toLowerCase(s) == [i \in 1..Len(s) |-> LowerChar(s[i])]

RECURSIVE TrimStart(_)
TrimStart(s) == IF s # <<>> /\ IsSpace(Head(s)) THEN TrimStart(Tail(s)) ELSE s

RECURSIVE TrimEnd(_)
TrimEnd(s) ==
  IF s # <<>> /\ IsSpace(s[Len(s)]) THEN TrimEnd(SubSeq(s, 1, Len(s) - 1)) ELSE s

\* String.prototype.trim
trim(s) == TrimEnd(TrimStart(s))

\* the length of the first run of non-space characters of s
RECURSIVE WordLen(_)
WordLen(s) == IF s = <<>> \/ IsSpace(Head(s)) THEN 0 ELSE 1 + WordLen(Tail(s))

\* s.split(/\s+/).filter(Boolean): the maximal runs of non-space characters
RECURSIVE splitWords(_)
splitWords(s) ==
  LET t == TrimStart(s)
      n == WordLen(t)
  IN IF t = <<>> THEN <<>>
     ELSE <<SubSeq(t, 1, n)>> \o splitWords(SubSeq(t, n + 1, Len(t)))

-----------------------------------------------------------------------------
(* Maps *)

EmptyMap == [k \in {} |-> {}]

\* Map.prototype.set
MapSet(m, k, v) == [x \in (DOMAIN m) \cup {k} |-> IF x = k THEN v ELSE m[x]]

\* Map.prototype.delete
MapDelete(m, k) == [x \in (DOMAIN m) \ {k} |-> m[x]]

-----------------------------------------------------------------------------
(* Inputs *)

\* the user ids the clients send
UserIds == {"Demo User", "u1"}

\* a request body without userId, or with a falsy one
NoUserId == ""

\* a request body without transcript
NoTranscript == <<"undefined">>

\* the transcripts sent to /challenge/tick
TickTranscripts ==
  { NoTranscript,
    <<>>,
    <<" ">>,
    <<"I">>,
    <<" ", "I", " ">>,
    <<"I", " ", "a", "m">>,
    <<"I", " ", "I", " ", "a", "m", " ", "f", "i", "n", "e">>,
    <<"a", "m", " ", "I", "\t", "i">>,
    <<"u", "m", " ", "h", "e", "l", "l", "o">>,
    <<"I", " ", "U", "m">>,
    <<"I", " ", "I", " ", "u", "h">>,
    <<"e", "r", " ", "e", "r">> }

\* the clock steps between two requests, in ms
Delays == {1500, 3001}

\* the clock stops here
MaxNow == 4500

-----------------------------------------------------------------------------
(* Challenge state machine: server.js:141-182 *)

\* the silence limit of the stagnation check, in ms
SilenceLimit == 3000

\* the filler lexicon of /challenge/tick
fillers ==
  { <<"u", "m">>, <<"u", "h">>, <<"l", "i", "k", "e">>, <<"h", "m", "m">>,
    <<"e", "r", "m">>, <<"a", "a">>, <<"e", "r">> }

NoReason == [label |-> "", quoted |-> Empty]

\* `${label}: "${quoted}"`
Reason(label, quoted) == [label |-> label, quoted |-> quoted]

SilenceReason == [label |-> "Silence detected (> 3s)", quoted |-> Empty]

\* res.status(code).json({ error })
JsonError(code, error) == [code |-> code, status |-> "", reason |-> NoReason, error |-> error]

\* res.json({ status, reason })
JsonStatus(status, reason) == [code |-> 200, status |-> status, reason |-> reason, error |-> ""]

\* the record /challenge/start stores
NewChallenge(t) ==
  [startTime |-> t, lastTranscript |-> Empty, lastChangeTime |-> t, isSpeaking |-> FALSE]

\* (transcript || "").trim()
CleanText(transcript) == trim(IF transcript = NoTranscript THEN Empty ELSE transcript)

\* cleanText.toLowerCase().split(/\s+/).filter(Boolean)
Words(cleanText) == splitWords(toLowerCase(cleanText))

\* the speaking-onset transition
Onset(challenge, cleanText, t) ==
  IF ~challenge.isSpeaking /\ Len(cleanText) > 0
  THEN [challenge EXCEPT !.isSpeaking = TRUE, !.lastChangeTime = t, !.lastTranscript = cleanText]
  ELSE challenge

\* the index of the first word the filler loop stops at, 0 if none
FillerAt(words) ==
  IF \E i \in 1..Len(words) : words[i] \in fillers
  THEN CHOOSE i \in 1..Len(words) :
         /\ words[i] \in fillers
         /\ \A j \in 1..(i - 1) : words[j] \notin fillers
  ELSE 0

\* a repetition loop that starts one word late
RepeatAtSkipFirst(words) ==
  IF \E i \in 3..Len(words) : words[i] = words[i - 1]
  THEN CHOOSE i \in 3..Len(words) :
         /\ words[i] = words[i - 1]
         /\ \A j \in 3..(i - 1) : words[j] # words[j - 1]
  ELSE 0

\* the index of the first word the repetition loop stops at, 0 if none
RepeatAt(words) ==
  IF \E i \in 2..Len(words) : words[i] = words[i - 1]
  THEN CHOOSE i \in 2..Len(words) :
         /\ words[i] = words[i - 1]
         /\ \A j \in 2..(i - 1) : words[j] # words[j - 1]
  ELSE 0

\* instant-fail scans with the repetition loop ahead of the filler loop
InstantFailRepeatFirst(cleanText) ==
  LET words == Words(cleanText)
      f == FillerAt(words)
      r == RepeatAt(words)
  IN IF Len(cleanText) > 0 /\ r > 0
     THEN Reason("Repetition", words[r] \o <<" ">> \o words[r])
     ELSE IF Len(cleanText) > 0 /\ f > 0 THEN Reason("Stuttered", words[f])
          ELSE NoReason

\* the instant-fail scans: the reason of the fail, NoReason if the tick goes on
InstantFail(cleanText) ==
  LET words == Words(cleanText)
      f == FillerAt(words)
      r == RepeatAt(words)
  IN IF Len(cleanText) > 0 /\ f > 0 THEN Reason("Stuttered", words[f])
     ELSE IF Len(cleanText) > 0 /\ r > 0
          THEN Reason("Repetition", words[r] \o <<" ">> \o words[r])
          ELSE NoReason

\* a silence check that already fires at the limit
SilenceTimeoutAtLimit(challenge, t) == t - challenge.lastChangeTime >= SilenceLimit

\* CleanText and InstantFail of the transcripts sent, computed once
CleanTextOf == [T \in TickTranscripts |-> CleanText(T)]
InstantFailOf == [T \in TickTranscripts |-> InstantFail(CleanText(T))]

\* now - challenge.lastChangeTime > 3000
SilenceTimeout(challenge, t) == t - challenge.lastChangeTime > SilenceLimit

\* a stagnation check that takes an empty text for no change
StagnationIgnoresEmpty(challenge, cleanText, t) ==
  IF challenge.isSpeaking
  THEN IF cleanText # challenge.lastTranscript /\ Len(cleanText) > 0
       THEN [challenge |-> [challenge EXCEPT !.lastChangeTime = t, !.lastTranscript = cleanText],
             silent |-> FALSE]
       ELSE [challenge |-> challenge, silent |-> SilenceTimeout(challenge, t)]
  ELSE [challenge |-> challenge, silent |-> FALSE]

\* the stagnation check: the record after it, and whether the silence limit was hit
Stagnation(challenge, cleanText, t) ==
  IF challenge.isSpeaking
  THEN IF cleanText # challenge.lastTranscript
       THEN [challenge |-> [challenge EXCEPT !.lastChangeTime = t, !.lastTranscript = cleanText],
             silent |-> FALSE]
       ELSE [challenge |-> challenge, silent |-> SilenceTimeout(challenge, t)]
  ELSE [challenge |-> challenge, silent |-> FALSE]

\* a tick that reports the silence but keeps the record
TickFoundKeepOnSilence(challenge, transcript, t) ==
  LET cleanText == CleanTextOf[transcript]
      c1 == Onset(challenge, cleanText, t)
      why == InstantFailOf[transcript]
      s == Stagnation(c1, cleanText, t)
  IN IF why # NoReason
     THEN [deleted |-> TRUE, challenge |-> c1, res |-> JsonStatus("fail", why)]
     ELSE IF s.silent
          THEN [deleted |-> FALSE, challenge |-> s.challenge, res |-> JsonStatus("fail", SilenceReason)]
          ELSE [deleted |-> FALSE, challenge |-> s.challenge, res |-> JsonStatus("ok", NoReason)]

\* the body of the /challenge/tick handler once the record was found:
\* whether the record is deleted, the record kept, and the response
TickFound(challenge, transcript, t) ==
  LET cleanText == CleanTextOf[transcript]
      c1 == Onset(challenge, cleanText, t)
      why == InstantFailOf[transcript]
      s == Stagnation(c1, cleanText, t)
  IN IF why # NoReason
     THEN [deleted |-> TRUE, challenge |-> c1, res |-> JsonStatus("fail", why)]
     ELSE IF s.silent
          THEN [deleted |-> TRUE, challenge |-> s.challenge, res |-> JsonStatus("fail", SilenceReason)]
          ELSE [deleted |-> FALSE, challenge |-> s.challenge, res |-> JsonStatus("ok", NoReason)]

\* history: no tick seen by the current record
NoTick == [at |-> -1, text |-> Empty, nonEmpty |-> Empty, replaced |-> FALSE]

\* history: a start has just replaced the record `old` of a user who was speaking
Restarted(challenges, userId) ==
  [NoTick EXCEPT !.replaced = userId \in DOMAIN challenges /\ challenges[userId].isSpeaking]

\* history: the record has seen a tick with normalized text `cleanText` at t
Ticked(h, cleanText, t) ==
  [at |-> t, text |-> cleanText, nonEmpty |-> IF cleanText # Empty THEN cleanText ELSE h.nonEmpty,
   replaced |-> FALSE]

\* a start that leaves an existing record alone
StartKeepsExisting(userId) ==
  /\ IF userId = NoUserId
     THEN /\ res' = JsonError(400, "User ID required")
          /\ UNCHANGED <<activeChallenges, prevTick>>
     ELSE /\ activeChallenges' =
               IF userId \in DOMAIN activeChallenges THEN activeChallenges
               ELSE MapSet(activeChallenges, userId, NewChallenge(now))
          /\ res' = JsonStatus("started", NoReason)
          /\ prevTick' = [prevTick EXCEPT ![userId] =
               IF userId \in DOMAIN activeChallenges THEN @ ELSE NoTick]
  /\ UNCHANGED <<users, sessions, sessionCounter, inflight, now>>

\* POST /challenge/start
Start(userId) ==
  /\ IF userId = NoUserId
     THEN /\ res' = JsonError(400, "User ID required")
          /\ UNCHANGED <<activeChallenges, prevTick>>
     ELSE /\ activeChallenges' = MapSet(activeChallenges, userId, NewChallenge(now))
          /\ res' = JsonStatus("started", NoReason)
          /\ prevTick' = [prevTick EXCEPT ![userId] = Restarted(activeChallenges, userId)]
  /\ UNCHANGED <<users, sessions, sessionCounter, inflight, now>>

\* a tick that opens a challenge for a user who has none
TickLazyStart(userId, transcript) ==
  LET found == IF userId \in DOMAIN activeChallenges THEN activeChallenges[userId]
               ELSE NewChallenge(now)
      r == TickFound(found, transcript, now)
  IN /\ userId # NoUserId
     /\ activeChallenges' =
          IF r.deleted THEN MapDelete(activeChallenges, userId)
          ELSE MapSet(activeChallenges, userId, r.challenge)
     /\ res' = r.res
     /\ prevTick' = [prevTick EXCEPT ![userId] =
          IF r.deleted THEN NoTick ELSE Ticked(prevTick[userId], CleanTextOf[transcript], now)]
     /\ UNCHANGED <<users, sessions, sessionCounter, inflight, now>>

\* a tick whose failure ends every challenge
TickFailEndsAll(userId, transcript) ==
  /\ IF userId \notin DOMAIN activeChallenges
     THEN /\ res' = JsonError(404, "No active challenge")
          /\ UNCHANGED <<activeChallenges, prevTick>>
     ELSE LET r == TickFound(activeChallenges[userId], transcript, now) IN
          /\ activeChallenges' =
               IF r.deleted THEN EmptyMap
               ELSE MapSet(activeChallenges, userId, r.challenge)
          /\ res' = r.res
          /\ prevTick' = [prevTick EXCEPT ![userId] =
               IF r.deleted THEN NoTick ELSE Ticked(prevTick[userId], CleanTextOf[transcript], now)]
  /\ UNCHANGED <<users, sessions, sessionCounter, inflight, now>>

\* POST /challenge/tick
Tick(userId, transcript) ==
  /\ IF userId \notin DOMAIN activeChallenges
     THEN /\ res' = JsonError(404, "No active challenge")
          /\ UNCHANGED <<activeChallenges, prevTick>>
     ELSE LET r == TickFound(activeChallenges[userId], transcript, now) IN
          /\ activeChallenges' =
               IF r.deleted THEN MapDelete(activeChallenges, userId)
               ELSE MapSet(activeChallenges, userId, r.challenge)
          /\ res' = r.res
          /\ prevTick' = [prevTick EXCEPT ![userId] =
               IF r.deleted THEN NoTick ELSE Ticked(prevTick[userId], CleanTextOf[transcript], now)]
  /\ UNCHANGED <<users, sessions, sessionCounter, inflight, now>>

\* the clock moves on between two requests
Advance(d) ==
  /\ now + d <= MaxNow
  /\ now' = now + d
  /\ UNCHANGED <<users, activeChallenges, sessions, sessionCounter, inflight, res, prevTick>>

-----------------------------------------------------------------------------
(* Registries at server start: server.js:29-43, 185-186 *)

\* one calendar day, in ms
MsPerDay == 24 * 60 * 60 * 1000

\* lastActiveDate: null
NoDate == -2

\* new Date().toISOString().split('T')[0] at clock t, as a day number
getTodayDate(t) == t \div MsPerDay

\* the seeded demo user; dailyMinutes is kept in sixtieths of a minute
DemoUser(t) ==
  [username |-> "Demo User", password |-> "123", xp |-> 120, level |-> 2, streak |-> 1,
   lastActiveDate |-> getTodayDate(t), badges |-> <<"First Step">>,
   stats |-> [totalSessions |-> 5, totalSeconds |-> 300, dailyMinutes |-> 5 * 60]]

\* the registry at server start
SeedUsers(t) == MapSet(EmptyMap, "Demo User", DemoUser(t))

\* the state at server start but for the user registry
InitButUsers ==
  /\ now = 0
  /\ activeChallenges = EmptyMap
  /\ sessions = <<>>
  /\ sessionCounter = 1
  /\ inflight = EmptyBag
  /\ res = JsonStatus("ok", NoReason)
  /\ prevTick = [u \in UserIds |-> NoTick]

Init ==
  /\ users = SeedUsers(0)
  /\ InitButUsers

-----------------------------------------------------------------------------
(* The challenge endpoints under a clock that moves in steps of seconds *)

NextChallenge ==
  \/ \E userId \in UserIds \cup {NoUserId} : Start(userId)
  \/ \E userId \in UserIds \cup {NoUserId}, transcript \in TickTranscripts : Tick(userId, transcript)
  \/ \E d \in Delays : Advance(d)

SpecChallenge == Init /\ [][NextChallenge]_vars

-----------------------------------------------------------------------------
(* Progression engine and heuristic analyzer: server.js:45-90 *)

\* the elements of a list
Range(list) == {list[i] : i \in DOMAIN list}

\* Math.floor(xp / 100), without the + 1
calculateLevelFromZero(xp) == xp \div 100

\* Math.floor(xp / 100) + 1
calculateLevel(xp) == (xp \div 100) + 1

\* an awardBadge without the includes test
awardBadgeAgain(st, name) ==
  [badges |-> Append(st.badges, name), newBadges |-> Append(st.newBadges, name)]

\* awardBadge: st holds user.badges and newBadges
awardBadge(st, name) ==
  IF name \notin Range(st.badges)
  THEN [badges |-> Append(st.badges, name), newBadges |-> Append(st.newBadges, name)]
  ELSE st

\* 10 + Math.floor(sessionDurationSec / 10), + 20 from a fluency score of 80
EarnedXp(sessionDurationSec, fluencyScore) ==
  10 + (sessionDurationSec \div 10) + (IF fluencyScore >= 80 THEN 20 ELSE 0)

\* a streak that grows with every session that follows a day of practice
StreakEverySession(user, today) ==
  IF user.lastActiveDate >= today - 1 THEN user.streak + 1 ELSE 1

\* the streak updateGamification leaves: untouched on a day already practised,
\* one more after a day of practice, 1 after anything else
Streak(user, today) ==
  IF user.lastActiveDate # today
  THEN IF user.lastActiveDate = today - 1 THEN user.streak + 1 ELSE 1
  ELSE user.streak

\* updateGamification at clock t: the profile after the call and what it returns
updateGamification(user, sessionDurationSec, fluencyScore, t) ==
  LET today == getTodayDate(t)
      stats ==
        [totalSessions |-> user.stats.totalSessions + 1,
         totalSeconds |-> user.stats.totalSeconds + sessionDurationSec,
         dailyMinutes |->
           (IF user.lastActiveDate # today THEN 0 ELSE user.stats.dailyMinutes)
             + sessionDurationSec]
      streak == Streak(user, today)
      earnedXp == EarnedXp(sessionDurationSec, fluencyScore)
      xp == user.xp + earnedXp
      b0 == [badges |-> user.badges, newBadges |-> <<>>]
      b1 == IF stats.totalSessions >= 1 THEN awardBadge(b0, "First Step") ELSE b0
      b2 == IF stats.totalSessions >= 10 THEN awardBadge(b1, "Dedicated Speaker") ELSE b1
      b3 == IF streak >= 3 THEN awardBadge(b2, "Consistency Champion") ELSE b2
      b4 == IF fluencyScore >= 90 THEN awardBadge(b3, "Smooth Speaker") ELSE b3
      b5 == IF xp >= 500 THEN awardBadge(b4, "XP Hunter") ELSE b4
  IN [user |-> [user EXCEPT !.stats = stats, !.streak = streak, !.lastActiveDate = today,
                            !.xp = xp, !.level = calculateLevel(xp), !.badges = b5.badges],
      earnedXp |-> earnedXp,
      newBadges |-> b5.newBadges]

\* the filler lexicon of analyzeHeuristics
fillerWords ==
  { <<"u", "m">>, <<"u", "h">>, <<"e", "r", "m">>, <<"h", "m", "m">>, <<"l", "i", "k", "e">> }

\* analyzeHeuristics: both counters are taken in the loop that starts at index 1
analyzeHeuristics(text) ==
  LET words == splitWords(toLowerCase(text))
      repeats == Cardinality({i \in 2..Len(words) : words[i] = words[i - 1]})
      fillerCount == Cardinality({i \in 2..Len(words) : words[i] \in fillerWords})
      score == 100 - repeats * 10 - fillerCount * 5
  IN [score |-> IF score < 30 THEN 30 ELSE score, repeats |-> repeats, fillers |-> fillerCount]

-----------------------------------------------------------------------------
(* User endpoints: server.js:106-125 *)

\* the profile POST /users stores
NewUser(clean, password) ==
  [username |-> clean, password |-> password, xp |-> 0, level |-> 1, streak |-> 0,
   lastActiveDate |-> NoDate, badges |-> <<>>,
   stats |-> [totalSessions |-> 0, totalSeconds |-> 0, dailyMinutes |-> 0]]

\* a username as it is sent: a list of pieces, a piece " " being white space
\* and any other piece a run of text that trim leaves alone
Usernames == { <<>>, <<"u1">>, <<" ", "u1", " ">>, <<"Demo User">> }

Passwords == {"", "pw"}

\* the text of a trimmed username
Text(clean) == IF clean = <<>> THEN "" ELSE clean[1]

\* POST /users
CreateUser(username, password) ==
  LET clean == Text(trim(username)) IN
  /\ IF username = <<>> \/ password = ""
     THEN res' = JsonError(400, "Username and Password required") /\ UNCHANGED users
     ELSE IF clean \in DOMAIN users
          THEN res' = JsonError(400, "User already exists") /\ UNCHANGED users
          ELSE /\ users' = MapSet(users, clean, NewUser(clean, password))
               /\ res' = [code |-> 200, status |-> "", reason |-> NoReason, error |-> "",
                          success |-> TRUE, username |-> clean]
  /\ UNCHANGED <<activeChallenges, sessions, sessionCounter, inflight, now, prevTick>>

-----------------------------------------------------------------------------
(* Coaching: server.js:184-240 *)

\* the profile /coach makes for a userId the registry does not know
LazyUser(userId) ==
  [username |-> userId, password |-> "", xp |-> 0, level |-> 1, streak |-> 0,
   lastActiveDate |-> NoDate, badges |-> <<>>,
   stats |-> [totalSessions |-> 0, totalSeconds |-> 0, dailyMinutes |-> 0]]

\* the transcripts sent to /coach
CoachTranscripts ==
  { NoTranscript,
    <<"I", " ", "a", "m">>,
    <<"I", " ", "I", " ", "I", " ", "I">> }

\* the durations sent to /coach, in seconds
CoachDurations == {-1000, 0, 4000}

\* how the call of the language collaborator ends: it fails, or it returns a
\* text that JSON.parse rejects, that parses to null, or that parses to the
\* object asked for
AiReplies == {"rejected", "malformed", "null", "object"}

\* the object a well-formed reply parses to
ParsedReply ==
  [fluentSentence |-> <<"I", " ", "a", "m", ".">>, tips |-> "Slow down.",
   coachTone |-> "supportive", confidenceScore |-> 77]

\* the fallback of the inner catch
FallbackReply(r) ==
  [fluentSentence |-> r.transcript, tips |-> "Keep going!", coachTone |-> "supportive",
   confidenceScore |-> r.score]

\* what the outer catch is handed: the rejection of co.chat, or a TypeError
Errors == {"rejected", "TypeError"}

\* responses of /coach; the outer catch answers 500 and logs the error caught
CoachError(err) ==
  [code |-> 500, status |-> "", reason |-> NoReason, error |-> "Cohere API error",
   logged |-> err]

CoachOk(session, user, g) ==
  [code |-> 200, status |-> "", reason |-> NoReason, error |-> "",
   session |-> session, userProfile |-> user,
   gamification |-> [earnedXp |-> g.earnedXp, newBadges |-> g.newBadges]]

\* the ledger entry of request r answered with ai
Session(r, ai, id, t) ==
  [id |-> id, userId |-> r.userId, mode |-> r.mode, transcript |-> r.transcript,
   score |-> r.score,
   confidenceScore |-> IF ai.confidenceScore = 0 THEN r.score ELSE ai.confidenceScore,
   fluentSentence |-> ai.fluentSentence, tips |-> ai.tips, coachTone |-> ai.coachTone,
   createdAt |-> t, duration |-> r.duration]

\* the ledger and the requests in flight are bounded
MaxSessions == 2
MaxInflight == 2

\* a handler that makes a blank profile for every request
CoachBeginBlankProfile(userId, transcript, duration) ==
  /\ BagCardinality(inflight) < MaxInflight
  /\ sessionCounter + BagCardinality(inflight) <= MaxSessions
  /\ users' = MapSet(users, userId, LazyUser(userId))
  /\ IF transcript = NoTranscript
     THEN res' = CoachError("TypeError") /\ UNCHANGED inflight
     ELSE /\ inflight' = inflight (+) SetToBag({[userId |-> userId, mode |-> "free_talk",
                                                transcript |-> transcript, duration |-> duration,
                                                score |-> analyzeHeuristics(transcript).score]})
          /\ UNCHANGED res
  /\ UNCHANGED <<activeChallenges, sessions, sessionCounter, now, prevTick>>

\* /coach up to the await of co.chat: the profile is looked up or made, the
\* heuristics are taken (a missing transcript throws into the outer catch)
CoachBegin(userId, transcript, duration) ==
  /\ BagCardinality(inflight) < MaxInflight
  /\ sessionCounter + BagCardinality(inflight) <= MaxSessions
  /\ users' = IF userId \in DOMAIN users THEN users ELSE MapSet(users, userId, LazyUser(userId))
  /\ IF transcript = NoTranscript
     THEN res' = CoachError("TypeError") /\ UNCHANGED inflight
     ELSE /\ inflight' = inflight (+) SetToBag({[userId |-> userId, mode |-> "free_talk",
                                                transcript |-> transcript, duration |-> duration,
                                                score |-> analyzeHeuristics(transcript).score]})
          /\ UNCHANGED res
  /\ UNCHANGED <<activeChallenges, sessions, sessionCounter, now, prevTick>>

\* a handler that updates the profile before it looks at how the call ended
CoachResumeGamifyFirst(r, reply) ==
  LET g == updateGamification(users[r.userId], r.duration, r.score, now)
      ai == IF reply = "malformed" THEN FallbackReply(r) ELSE ParsedReply
      session == Session(r, ai, sessionCounter, now)
  IN /\ BagIn(r, inflight)
     /\ inflight' = inflight (-) SetToBag({r})
     /\ users' = [users EXCEPT ![r.userId] = g.user]
     /\ IF reply = "rejected"
        THEN res' = CoachError("rejected") /\ UNCHANGED <<sessions, sessionCounter>>
        ELSE /\ sessionCounter' = sessionCounter + 1
             /\ IF reply = "null"
                THEN res' = CoachError("TypeError") /\ UNCHANGED sessions
                ELSE sessions' = Append(sessions, session) /\ res' = CoachOk(session, g.user, g)
     /\ UNCHANGED <<activeChallenges, now, prevTick>>

\* /coach from the return of co.chat on, for the request r in flight
CoachResume(r, reply) ==
  LET g == updateGamification(users[r.userId], r.duration, r.score, now)
      ai == IF reply = "malformed" THEN FallbackReply(r) ELSE ParsedReply
      session == Session(r, ai, sessionCounter, now)
  IN /\ BagIn(r, inflight)
     /\ inflight' = inflight (-) SetToBag({r})
     /\ IF reply = "rejected"
        THEN res' = CoachError("rejected") /\ UNCHANGED <<users, sessions, sessionCounter>>
        ELSE /\ users' = [users EXCEPT ![r.userId] = g.user]
             /\ sessionCounter' = sessionCounter + 1
             /\ IF reply = "null"
                THEN res' = CoachError("TypeError") /\ UNCHANGED sessions
                ELSE sessions' = Append(sessions, session) /\ res' = CoachOk(session, g.user, g)
     /\ UNCHANGED <<activeChallenges, now, prevTick>>

\* the calendar moves on by one day
MaxDay == 2

NextDay ==
  /\ getTodayDate(now) < MaxDay
  /\ now' = now + MsPerDay
  /\ UNCHANGED <<users, activeChallenges, sessions, sessionCounter, inflight, res, prevTick>>

\* the requests the bag holds
InFlight == BagToSet(inflight)

NextCoach ==
  \/ \E username \in Usernames, password \in Passwords : CreateUser(username, password)
  \/ \E userId \in UserIds, transcript \in CoachTranscripts, duration \in CoachDurations :
       CoachBegin(userId, transcript, duration)
  \/ \E r \in InFlight, reply \in AiReplies : CoachResume(r, reply)

SpecCoach == Init /\ [][NextCoach]_vars

-----------------------------------------------------------------------------
(* The session ledger read back: server.js:275-278 *)

\* Array.prototype.sort with (a, b) => new Date(b.createdAt) - new Date(a.createdAt):
\* s is put behind every entry of the sorted list that is not older than it,
\* so that entries of one timestamp keep the order they had (the sort is stable)
InsertByCreatedAt(sorted, s) ==
  LET ahead == Cardinality({i \in 1..Len(sorted) : sorted[i].createdAt >= s.createdAt})
  IN SubSeq(sorted, 1, ahead) \o <<s>> \o SubSeq(sorted, ahead + 1, Len(sorted))

RECURSIVE SortNewestFirst(_)
SortNewestFirst(list) ==
  IF list = <<>> THEN <<>>
  ELSE InsertByCreatedAt(SortNewestFirst(SubSeq(list, 1, Len(list) - 1)), list[Len(list)])

\* sessions.filter((s) => s.userId === req.params.userId)
SessionsOf(userId) ==
  LET Mine(s) == s.userId = userId IN SelectSeq(sessions, Mine)

\* GET /sessions/:userId
GetSessions(userId) ==
  /\ res' = [code |-> 200, status |-> "", reason |-> NoReason, error |-> "",
             sessions |-> SortNewestFirst(SessionsOf(userId))]
  /\ UNCHANGED <<users, activeChallenges, sessions, sessionCounter, inflight, now, prevTick>>

\* the user ids GET /sessions is asked for: the known ones and one without entries
LedgerReaders == UserIds \cup {"nobody"}

\* coaching with one transcript and one duration, under a clock, with the
\* ledger read back at any time
NextLedger ==
  \/ \E userId \in UserIds : CoachBegin(userId, <<"I", " ", "a", "m">>, 0)
  \/ \E r \in InFlight, reply \in AiReplies : CoachResume(r, reply)
  \/ \E d \in Delays : Advance(d)
  \/ \E userId \in LedgerReaders : GetSessions(userId)

SpecLedger == Init /\ [][NextLedger]_vars

-----------------------------------------------------------------------------
(* The progression engine applied over and over *)

\* the scores and durations handed to updateGamification
FluencyScores == {85, 100}
SessionDurations == {0, 4000}

\* no profile is taken beyond this many sessions
MaxTotalSessions == 11

\* the profile the engine is applied to: the seeded one, or the one of a user
\* who has just registered
ProfileUnderTest == IF "u1" \in DOMAIN users THEN "u1" ELSE "Demo User"

InitGamify ==
  /\ users \in {SeedUsers(0), MapSet(SeedUsers(0), "u1", NewUser("u1", "pw"))}
  /\ InitButUsers

\* updateGamification on the profile of username
Gamify(username, duration, score) ==
  LET g == updateGamification(users[username], duration, score, now) IN
  /\ username = ProfileUnderTest
  /\ users[username].stats.totalSessions < MaxTotalSessions
  /\ users' = [users EXCEPT ![username] = g.user]
  /\ res' = [code |-> 200, status |-> "", reason |-> NoReason, error |-> "",
             gamification |-> [earnedXp |-> g.earnedXp, newBadges |-> g.newBadges]]
  /\ UNCHANGED <<activeChallenges, sessions, sessionCounter, inflight, now, prevTick>>

NextGamify ==
  \/ \E username \in UserIds, duration \in SessionDurations, score \in FluencyScores :
       Gamify(username, duration, score)
  \/ NextDay

SpecGamify == InitGamify /\ [][NextGamify]_vars

-----------------------------------------------------------------------------
(* The analyzer applied to one text *)

\* the words the texts handed to analyzeHeuristics are made of
AnalyzerWords ==
  { <<"u", "m">>, <<"U", "m">>, <<"I">>, <<"h", "e", "l", "l", "o">> }

\* no text has more words than this
MaxWords == 6

\* the words ws written out with one blank between them
RECURSIVE Join(_)
Join(ws) ==
  IF ws = <<>> THEN <<>>
  ELSE IF Len(ws) = 1 THEN ws[1]
  ELSE ws[1] \o <<" ">> \o Join(Tail(ws))

\* texts with white space at either end, doubled and of another kind
SpacedTexts ==
  { <<" ", "u", "m">>,
    <<"I", " ", " ", "I", "\t", "u", "m", " ">>,
    <<" ", "\t">> }

AnalyzerTexts ==
  {Join(ws) : ws \in UNION {[1..n -> AnalyzerWords] : n \in 0..MaxWords}} \cup SpacedTexts

\* a text waits for the analyzer
TextGiven(text) ==
  [code |-> 0, status |-> "", reason |-> NoReason, error |-> "", text |-> text]

\* the analyzer's result next to the text it was given
TextAnalyzed(text, heuristics) ==
  [code |-> 0, status |-> "", reason |-> NoReason, error |-> "", text |-> text,
   heuristics |-> heuristics]

InitAnalyze ==
  /\ users = SeedUsers(0)
  /\ now = 0
  /\ activeChallenges = EmptyMap
  /\ sessions = <<>>
  /\ sessionCounter = 1
  /\ inflight = EmptyBag
  /\ res \in {TextGiven(text) : text \in AnalyzerTexts}
  /\ prevTick = [u \in UserIds |-> NoTick]

\* analyzeHeuristics on the text given
Analyze ==
  /\ "heuristics" \notin DOMAIN res
  /\ res' = TextAnalyzed(res.text, analyzeHeuristics(res.text))
  /\ UNCHANGED <<users, activeChallenges, sessions, sessionCounter, inflight, now, prevTick>>

NextAnalyze == Analyze

SpecAnalyze == InitAnalyze /\ [][NextAnalyze]_vars

-----------------------------------------------------------------------------
(* Properties of the challenge state machine *)

\* every user id a request can carry
AnyUserId == UserIds \cup {NoUserId}

\* the words of a transcript as the client wrote them
SpokenWords(T) == splitWords(CleanText(T))

\* the filler lexicon of the challenge, as the specification lists it
ChallengeLexicon ==
  { <<"u", "m">>, <<"u", "h">>, <<"l", "i", "k", "e">>, <<"h", "m", "m">>,
    <<"e", "r", "m">>, <<"a", "a">>, <<"e", "r">> }

\* some case-folded word of T is a filler
HasFiller(T) ==
  \E i \in 1..Len(SpokenWords(T)) : toLowerCase(SpokenWords(T)[i]) \in ChallengeLexicon

\* the positions of T whose word is, case-folded, the word before it
RepeatedAt(T) ==
  { i \in 2..Len(SpokenWords(T)) :
      toLowerCase(SpokenWords(T)[i]) = toLowerCase(SpokenWords(T)[i - 1]) }

\* a non-empty transcript with no filler and no adjacent identical words
PlainSpeech(T) == CleanText(T) # Empty /\ ~HasFiller(T) /\ RepeatedAt(T) = {}

\* the text x is a contiguous part of the text y
Mentions(y, x) == \E i \in 0..(Len(y) - Len(x)) : SubSeq(y, i + 1, i + Len(x)) = x

\* the transcripts sent, by what they hold
PlainTranscripts == {T \in TickTranscripts : PlainSpeech(T)}
FillerTranscripts == {T \in TickTranscripts : HasFiller(T)}
RepeatTranscripts == {T \in TickTranscripts : ~HasFiller(T) /\ RepeatedAt(T) # {}}

\* the step is a tick of u with T that follows, in the same challenge, a tick
\* with the same normalized text
SameTextAgain(u, T) ==
  /\ u \in DOMAIN activeChallenges
  /\ prevTick[u].at >= 0
  /\ prevTick[u].text = CleanTextOf[T]
  /\ Tick(u, T)

FailedSilent(u) ==
  /\ res' = JsonStatus("fail", SilenceReason)
  /\ u \notin DOMAIN activeChallenges'

WentOn(u) ==
  /\ res' = JsonStatus("ok", NoReason)
  /\ u \in DOMAIN activeChallenges'

\* C1, as claimed: a tick that repeats the text of the tick before it fails
\* with the silence reason and deletes the record when more than 3000 ms lie
\* between the two ticks, and returns ok and keeps the record otherwise.
C1_SilenceBetweenTicks ==
  [][\A u \in UserIds, T \in PlainTranscripts :
       SameTextAgain(u, T) =>
         IF now - prevTick[u].at > 3000 THEN FailedSilent(u) ELSE WentOn(u)]_vars

\* C1, amended: the silence limit runs from lastChangeTime, the instant the
\* normalized text last changed, not from the tick before.  A tick that repeats
\* the text of the tick before it fails with the silence reason and deletes the
\* record exactly when more than 3000 ms have passed since lastChangeTime, and
\* otherwise returns ok and leaves the record as it was; more than 3000 ms
\* between the two ticks always fail.
C1_SilenceSinceLastChange ==
  [][\A u \in UserIds, T \in PlainTranscripts :
       SameTextAgain(u, T) =>
         /\ IF now - activeChallenges[u].lastChangeTime > 3000
            THEN FailedSilent(u)
            ELSE WentOn(u) /\ activeChallenges'[u] = activeChallenges[u]
         /\ now - prevTick[u].at > 3000 => FailedSilent(u)]_vars

\* a tick has failed for silence, and the other user's challenge goes on
C1_Witness ==
  /\ res = JsonStatus("fail", SilenceReason)
  /\ \E u \in DOMAIN activeChallenges : activeChallenges[u].isSpeaking

\* C2: a tick of an active challenge whose transcript holds a filler of the
\* lexicon fails with a reason that quotes a filler word of the transcript and
\* deletes the record, whatever isSpeaking, the elapsed time and the
\* repetitions in the transcript.
C2_FillerFails ==
  [][\A u \in UserIds, T \in FillerTranscripts :
       (u \in DOMAIN activeChallenges /\ Tick(u, T)) =>
         /\ res'.code = 200
         /\ res'.status = "fail"
         /\ res'.reason.label = "Stuttered"
         /\ res'.reason.quoted \in ChallengeLexicon
         /\ \E i \in 1..Len(SpokenWords(T)) :
              toLowerCase(SpokenWords(T)[i]) = res'.reason.quoted
         /\ u \notin DOMAIN activeChallenges']_vars

\* the tick "I I uh" (a repetition ahead of the filler) has failed for its filler
C2_Witness ==
  /\ res = JsonStatus("fail", Reason("Stuttered", <<"u", "h">>))
  /\ activeChallenges # EmptyMap

\* C3, as claimed: a tick without filler but with two adjacent identical words
\* fails with a reason that mentions the repeated pair as the transcript has
\* it ("I I" for "I I am fine"), and deletes the record.
C3_RepetitionQuotesTranscript ==
  [][\A u \in UserIds, T \in RepeatTranscripts :
       (u \in DOMAIN activeChallenges /\ Tick(u, T)) =>
         /\ res'.status = "fail"
         /\ \E i \in RepeatedAt(T) :
              Mentions(res'.reason.quoted, SpokenWords(T)[i - 1] \o <<" ">> \o SpokenWords(T)[i])
         /\ u \notin DOMAIN activeChallenges']_vars

\* C3, amended: such a tick fails and deletes the record, and its reason quotes
\* the case-folded word of the first repeated pair twice, a blank between
\* ("i i" for "I I am fine").
C3_RepetitionFails ==
  [][\A u \in UserIds, T \in RepeatTranscripts :
       (u \in DOMAIN activeChallenges /\ Tick(u, T)) =>
         LET i == CHOOSE k \in RepeatedAt(T) : \A j \in RepeatedAt(T) : k <= j
             w == toLowerCase(SpokenWords(T)[i])
         IN /\ res'.code = 200
            /\ res'.status = "fail"
            /\ res'.reason = Reason("Repetition", w \o <<" ">> \o w)
            /\ u \notin DOMAIN activeChallenges']_vars

\* a tick has failed for the repetition "i i" while the other challenge goes on
C3_Witness ==
  /\ res = JsonStatus("fail", Reason("Repetition", <<"i", " ", "i">>))
  /\ activeChallenges # EmptyMap

\* C4: a record is created by a start of its user only and removed by a failing
\* tick of its user only; a tick that returns fail leaves no record, and a tick
\* for a user without record returns 404 and creates none.
C4_RecordLifetime ==
  [][\A u \in UserIds :
       /\ \A T \in TickTranscripts :
            (res'.status = "fail" /\ Tick(u, T)) => u \notin DOMAIN activeChallenges'
       /\ \A T \in TickTranscripts :
            (u \notin DOMAIN activeChallenges /\ Tick(u, T)) =>
               res'.code = 404 /\ u \notin DOMAIN activeChallenges'
       /\ (u \notin DOMAIN activeChallenges /\ u \in DOMAIN activeChallenges') => Start(u)
       /\ (u \in DOMAIN activeChallenges /\ u \notin DOMAIN activeChallenges') =>
            \E T \in TickTranscripts : Tick(u, T) /\ res'.status = "fail"]_vars

\* a tick has failed and its record is gone while the other user's is there
C4_Witness ==
  /\ res.status = "fail"
  /\ \E u \in UserIds : u \notin DOMAIN activeChallenges
  /\ \E u \in UserIds : u \in DOMAIN activeChallenges /\ prevTick[u].at >= 0

\* C5: a tick for a user id without record answers 404 and changes no registry.
C5_TickWithoutChallenge ==
  [][\A u \in AnyUserId, T \in TickTranscripts :
       (u \notin DOMAIN activeChallenges /\ Tick(u, T)) =>
         /\ res' = JsonError(404, "No active challenge")
         /\ activeChallenges' = activeChallenges
         /\ users' = users
         /\ sessions' = sessions]_vars

\* a tick was answered 404 while another user has a record
C5_Witness ==
  /\ res = JsonError(404, "No active challenge")
  /\ \E u \in UserIds : u \in DOMAIN activeChallenges /\ activeChallenges[u].isSpeaking

\* C6: a start with a user id puts a fresh record in the place of whatever was
\* there (isSpeaking false, lastTranscript "", startTime and lastChangeTime now)
\* and touches no other record; the first tick after a start never fails for
\* silence.
C6_StartReplaces ==
  [][\A u \in UserIds :
       /\ Start(u) =>
            /\ u \in DOMAIN activeChallenges'
            /\ activeChallenges'[u] =
                 [startTime |-> now, lastTranscript |-> Empty, lastChangeTime |-> now,
                  isSpeaking |-> FALSE]
            /\ \A v \in UserIds \ {u} :
                 /\ v \in DOMAIN activeChallenges' <=> v \in DOMAIN activeChallenges
                 /\ v \in DOMAIN activeChallenges => activeChallenges'[v] = activeChallenges[v]
       /\ \A T \in TickTranscripts :
            (u \in DOMAIN activeChallenges /\ prevTick[u].at < 0 /\ Tick(u, T)) =>
               res'.reason # SilenceReason]_vars

\* a start has replaced the record of a user who was speaking, after the
\* silence limit of the old record had run out
C6_Witness ==
  \E u \in DOMAIN activeChallenges :
    /\ res = JsonStatus("started", NoReason)
    /\ prevTick[u].replaced
    /\ activeChallenges[u] = NewChallenge(now)
    /\ now > 3000

\* C7, as claimed: once isSpeaking is true, lastTranscript is non-empty and is
\* the normalized text of the latest tick whose normalized text was non-empty.
C7_LastNonEmptyText ==
  \A u \in DOMAIN activeChallenges :
    activeChallenges[u].isSpeaking =>
      /\ activeChallenges[u].lastTranscript # Empty
      /\ activeChallenges[u].lastTranscript = prevTick[u].nonEmpty

\* C7, amended: lastTranscript is the normalized text of the latest tick of the
\* challenge, empty or not ("" before the first tick); isSpeaking is true
\* exactly when some tick of the challenge had a non-empty normalized text.
C7_LastText ==
  \A u \in DOMAIN activeChallenges :
    /\ activeChallenges[u].lastTranscript = prevTick[u].text
    /\ activeChallenges[u].isSpeaking <=> prevTick[u].nonEmpty # Empty

\* a speaking user's lastTranscript is empty after an empty tick
C7_Witness ==
  \E u \in DOMAIN activeChallenges :
    /\ activeChallenges[u].isSpeaking
    /\ activeChallenges[u].lastTranscript = Empty
    /\ prevTick[u].nonEmpty # Empty

-----------------------------------------------------------------------------
(* Properties of the progression engine *)

\* C8: from one step to the next, no profile's xp goes down, whatever duration
\* the /coach requests carry.
C8_XpNeverDecreases ==
  [][\A u \in DOMAIN users : users'[u].xp >= users[u].xp]_vars

\* C9: every profile of the registry has level = floor(xp / 100) + 1.
C9_LevelMatchesXp ==
  \A u \in DOMAIN users : users[u].level = (users[u].xp \div 100) + 1

\* the seeded user and a user made after server start have both been through
\* a progression update, and a level has moved
C9_Witness ==
  /\ "u1" \in DOMAIN users
  /\ users["u1"].stats.totalSessions >= 1
  /\ users["Demo User"].stats.totalSessions >= 6
  /\ \E u \in DOMAIN users : users[u].level > 2

\* no element twice
NoDuplicates(list) == \A i, j \in DOMAIN list : list[i] = list[j] => i = j

\* the badges whose condition the call just made meets, for the profile as the
\* call leaves it and the fluency score it was given
BadgesMet(user, fluencyScore) ==
  {b \in {"First Step", "Dedicated Speaker", "Consistency Champion", "Smooth Speaker", "XP Hunter"} :
     \/ b = "First Step" /\ user.stats.totalSessions >= 1
     \/ b = "Dedicated Speaker" /\ user.stats.totalSessions >= 10
     \/ b = "Consistency Champion" /\ user.streak >= 3
     \/ b = "Smooth Speaker" /\ fluencyScore >= 90
     \/ b = "XP Hunter" /\ user.xp >= 500}

\* C10: no profile ever holds a badge twice; a progression update appends its
\* newBadges to the badges held, and newBadges names, once each, exactly the
\* badges whose condition the call meets and that were not held before it: a
\* badge held (the seeded "First Step" too) is never reported again.
C10_BadgeIdempotence ==
  [][/\ \A u \in DOMAIN users' : NoDuplicates(users'[u].badges)
     /\ \A u \in UserIds, d \in SessionDurations, score \in FluencyScores :
          Gamify(u, d, score) =>
            LET newBadges == res'.gamification.newBadges IN
            /\ users'[u].badges = users[u].badges \o newBadges
            /\ NoDuplicates(newBadges)
            /\ Range(newBadges) = BadgesMet(users'[u], score) \ Range(users[u].badges)
            /\ Range(newBadges) \cap Range(users[u].badges) = {}]_vars

\* a profile holds all five badges, each once, and its latest update met the
\* conditions of badges it held and reported none of them
C10_Witness ==
  \E u \in DOMAIN users :
    /\ Len(users[u].badges) = 5
    /\ "gamification" \in DOMAIN res
    /\ res.gamification.newBadges = <<>>
    /\ users[u].stats.totalSessions > 10

-----------------------------------------------------------------------------
(* Properties of the analyzer *)

\* the tokens of a text: case-folded and split at white space
Tokens(text) == splitWords(toLowerCase(text))

\* the positions whose token is in the filler lexicon um, uh, erm, hmm, like
FillerPositions(text) ==
  { i \in 1..Len(Tokens(text)) :
      Tokens(text)[i] \in { <<"u", "m">>, <<"u", "h">>, <<"e", "r", "m">>,
                            <<"h", "m", "m">>, <<"l", "i", "k", "e">> } }

\* the positions whose token is the token before it
RepeatPositions(text) ==
  { i \in 2..Len(Tokens(text)) : Tokens(text)[i] = Tokens(text)[i - 1] }

\* a text has been analyzed
Analyzed == "heuristics" \in DOMAIN res

\* C12: for every text the analyzer's score lies between 30 and 100, and it is
\* 100 exactly when the text has no adjacent identical tokens and no token of
\* the filler lexicon.
C12_ScoreRange ==
  Analyzed =>
    /\ res.heuristics.score \in 30..100
    /\ res.heuristics.score = 100 <=>
         (RepeatPositions(res.text) = {} /\ FillerPositions(res.text) = {})

\* what is left of 100 after 10 a repeat and 5 a filler, and never below 30
ScoreOf(repeats, fillerCount) ==
  IF 100 - 10 * repeats - 5 * fillerCount < 30 THEN 30
  ELSE 100 - 10 * repeats - 5 * fillerCount

\* C13: the analyzer's fillers is the number of tokens, the first one
\* included, that are in the filler lexicon; its repeats is the number of
\* positions from the second on whose token equals the one before; its score is
\* the larger of 30 and 100 - 10 * repeats - 5 * fillers.
C13_Counts ==
  Analyzed =>
    /\ res.heuristics.fillers = Cardinality(FillerPositions(res.text))
    /\ res.heuristics.repeats = Cardinality(RepeatPositions(res.text))
    /\ res.heuristics.score =
         ScoreOf(Cardinality(RepeatPositions(res.text)), Cardinality(FillerPositions(res.text)))

-----------------------------------------------------------------------------
(* Properties of the coaching orchestrator *)

\* the replies that come back but do not decode into the record asked for
UndecodableReplies == {"malformed", "null"}

\* C14: whenever the collaborator's call returns a reply that does not decode
\* into the record asked for, /coach answers 200 with the original transcript
\* as fluent sentence and the heuristic score as confidence score, applies the
\* progression update and appends the ledger entry it returns.
C14_DecodeFallback ==
  [][\A r \in InFlight, reply \in UndecodableReplies :
       CoachResume(r, reply) =>
         /\ res'.code = 200
         /\ res'.session.fluentSentence = r.transcript
         /\ res'.session.confidenceScore = r.score
         /\ users'[r.userId].stats.totalSessions = users[r.userId].stats.totalSessions + 1
         /\ sessions' = Append(sessions, res'.session)]_vars

\* the progression of a profile
Progression(user) ==
  [xp |-> user.xp, level |-> user.level, streak |-> user.streak, badges |-> user.badges,
   stats |-> user.stats]

\* C15: when the call of the collaborator fails, /coach answers 500 and the
\* request has applied no progression, appended no ledger entry and not advanced
\* the session counter: the step that handles the failure changes none of
\* them, and the part of the request before the call changes no profile the
\* registry held, adds at most a profile without progression, and leaves ledger
\* and counter alone.
C15_UpstreamFailure ==
  [][/\ \A r \in InFlight :
          CoachResume(r, "rejected") =>
            /\ res'.code = 500
            /\ users' = users
            /\ sessions' = sessions
            /\ sessionCounter' = sessionCounter
     /\ \A userId \in UserIds, transcript \in CoachTranscripts, duration \in CoachDurations :
          CoachBegin(userId, transcript, duration) =>
            /\ \A v \in DOMAIN users : users'[v] = users[v]
            /\ \A v \in DOMAIN users' \ DOMAIN users :
                 Progression(users'[v]) = Progression(LazyUser(v))
            /\ sessions' = sessions
            /\ sessionCounter' = sessionCounter]_vars

\* the call failed for a request of a user the registry did not know, and
\* nothing but that user's blank profile is left of the request
C15_Witness ==
  /\ res = CoachError("rejected")
  /\ inflight = EmptyBag
  /\ sessions = <<>>
  /\ sessionCounter = 1
  /\ "u1" \in DOMAIN users
  /\ users["u1"] = LazyUser("u1")
  /\ users["Demo User"] = DemoUser(0)

-----------------------------------------------------------------------------
(* Properties of the session ledger *)

\* C16: GET /sessions/:userId returns exactly the ledger entries of that
\* userId, strictly newest first: of any two of them the one with the larger
\* id comes earlier, also when both carry the same timestamp.
C16_NewestFirst ==
  [][\A u \in LedgerReaders :
       GetSessions(u) =>
         /\ Len(res'.sessions) = Cardinality({k \in 1..Len(sessions) : sessions[k].userId = u})
         /\ \A k \in 1..Len(sessions) :
              sessions[k].userId = u => \E i \in 1..Len(res'.sessions) : res'.sessions[i] = sessions[k]
         /\ \A i, j \in 1..Len(res'.sessions) :
              i < j => res'.sessions[i].id > res'.sessions[j].id]_vars

\* C17: under any interleaving of /coach requests the ledger only grows at its
\* end, by one entry at a time, and the k-th entry has id k: ids start at 1,
\* are unique, leave no gap and increase; no entry is changed or removed.
C17_LedgerIds ==
  [][/\ \/ sessions' = sessions
        \/ /\ Len(sessions') = Len(sessions) + 1
           /\ SubSeq(sessions', 1, Len(sessions)) = sessions
     /\ \A k \in 1..Len(sessions') : sessions'[k].id = k]_vars

\* the number of ledger entries of userId in the ledger l
EntriesOf(l, userId) == Cardinality({k \in 1..Len(l) : l[k].userId = userId})

\* C18: every step of a /coach request either applies the progression update
\* to a profile and appends one ledger entry of that userId, or does neither;
\* so a profile made with totalSessions 0 always has as many sessions as the
\* ledger has entries of its userId.
C18_CoachAtomicity ==
  [][/\ \A u \in DOMAIN users :
          (u \in DOMAIN users' /\ users'[u] # users[u]) <=>
            (EntriesOf(sessions', u) = EntriesOf(sessions, u) + 1)
     /\ Len(sessions') <= Len(sessions) + 1
     /\ \A u \in DOMAIN users' \ {"Demo User"} :
          users'[u].stats.totalSessions = EntriesOf(sessions', u)]_vars

\* C19: requests of one userId that are in flight at once work on one and the
\* same profile and lose no update: a request never replaces a profile the
\* registry holds, the profile of every request in flight is in the registry,
\* and every request answered 200 adds the earnedXp it returns to the xp of its
\* profile and 1 to its totalSessions, whatever ran since it began, and changes
\* no other profile.
C19_NoLostUpdate ==
  [][/\ \A r \in InFlight, reply \in AiReplies :
          (CoachResume(r, reply) /\ res'.code = 200) =>
            /\ users'[r.userId].xp = users[r.userId].xp + res'.gamification.earnedXp
            /\ users'[r.userId].stats.totalSessions = users[r.userId].stats.totalSessions + 1
            /\ res'.userProfile = users'[r.userId]
            /\ \A v \in DOMAIN users \ {r.userId} : users'[v] = users[v]
     /\ \A userId \in UserIds, transcript \in CoachTranscripts, duration \in CoachDurations :
          CoachBegin(userId, transcript, duration) =>
            \A v \in DOMAIN users : users'[v] = users[v]
     /\ \A r \in BagToSet(inflight') : r.userId \in DOMAIN users']_vars

\* two requests of a userId the registry did not know have been answered 200,
\* and the one profile made for it shows both: 30 xp each, two sessions
C19_Witness ==
  /\ Len(sessions) = 2
  /\ sessions[1].userId = "u1"
  /\ sessions[2].userId = "u1"
  /\ sessions[1].duration = 0
  /\ sessions[2].duration = 0
  /\ res.code = 200
  /\ "u1" \in DOMAIN users
  /\ users["u1"].password = ""
  /\ users["u1"].stats.totalSessions = 2
  /\ users["u1"].xp = 30 + 30

-----------------------------------------------------------------------------
(* Isolation of the challenges *)

\* the challenge record of userId in the map m, if there is one
RecordOf(m, userId) == IF userId \in DOMAIN m THEN <<m[userId]>> ELSE <<>>

\* the step is a start or a tick of userId
StartOrTick(userId) == Start(userId) \/ \E T \in TickTranscripts : Tick(userId, T)

\* C20: a start or tick of one userId, whatever it answers, leaves the challenge
\* record of every other userId, every user profile and the session ledger as
\* they are; and a record goes away only in a tick of its own userId, never by
\* time passing.
C20_ChallengeIsolation ==
  [][/\ \A u \in AnyUserId :
          (\/ \E v \in AnyUserId \ {u} :
                RecordOf(activeChallenges', v) # RecordOf(activeChallenges, v)
           \/ users' # users
           \/ sessions' # sessions) => ~StartOrTick(u)
     /\ \A v \in DOMAIN activeChallenges \ DOMAIN activeChallenges' :
          \E T \in TickTranscripts : Tick(v, T)
     /\ now' # now => activeChallenges' = activeChallenges]_vars

\* a tick of one user has failed and taken that user's record away, while the
\* record of the other user, silent for longer than the limit, is still there
C20_Witness ==
  \E u, v \in UserIds :
    /\ u # v
    /\ res.status = "fail"
    /\ u \notin DOMAIN activeChallenges
    /\ v \in DOMAIN activeChallenges
    /\ activeChallenges[v].isSpeaking
    /\ now - activeChallenges[v].lastChangeTime > SilenceLimit

====
